---- MODULE Spec2Model ----
(***************************************************************************)
(* Model of the "AI & Society Job Scraper - Unified" workflow              *)
(* (.github/workflows/unified_scraper.yml): the three fetch phases, the    *)
(* embedded integrate_data.py (load, combine, deduplicate, rank,           *)
(* aggregate, save), the legacy copy and the commit-and-push step; and of *)
(* linkedin_scraper.js: the query loop, the normalizer with                *)
(* determineJobType and generateTags, the save of the raw data and the     *)
(* analyzer process it spawns.                                             *)
(*                                                                         *)
(* A job record is a function from the field names it carries to their     *)
(* values, so that dict.get(key, default) keeps its meaning for a record   *)
(* that lacks the key.  Strings are TLA+ strings and the identifier is     *)
(* built by real concatenation.                                            *)
(***************************************************************************)
EXTENDS Integers, Sequences, FiniteSets, TLC

VARIABLES
    pc,             \* the step of the workflow job that runs next
    hung,           \* the source whose scraper does not return, or "none"
    staging,        \* per source: its staging file under data/
    all_jobs,       \* integrate_data.py: the combined list
    unique_jobs,    \* integrate_data.py: the deduplicated, then sorted list
    seen,           \* integrate_data.py: the identifiers met by the dedup loop
    master_data,    \* integrate_data.py: the artifact assembled in memory
    master,         \* the file data/all_jobs_integrated.json of the workspace
    jobs_json,      \* the file data/jobs.json of the workspace (legacy copy)
    remote,         \* data/all_jobs_integrated.json on origin/main
    integrate_exit, \* exit status of "python integrate_data.py"
    li_pc,          \* linkedin_scraper.js: where the scraper process is
    processedCount, \* linkedin_scraper.js: the combinations taken so far
    allJobs,        \* linkedin_scraper.js: the records collected so far
    queried,        \* the queries sent so far, each with what became of it
    paused,         \* the one-second pause has elapsed since the last query
    linkedin_raw,   \* the file data/linkedin_raw.json of the workspace
    analyzer,       \* the process "python3 linkedin_gemini_analyzer.py"
    promise,        \* the promise scrapeLinkedInJobsWithGemini returns
    pageJobs,       \* index.html: the global allJobs of the page
    filteredJobs,   \* index.html: the global filteredJobs
    currentSort,    \* index.html: the global currentSort
    jobList,        \* index.html: what the element job-list shows
    statsDisplay,   \* index.html: the total the element stats-display shows
    uncaught        \* index.html: the last handler ended in an uncaught error

\* the variables of the workflow job and of integrate_data.py
wfVars == <<pc, hung, staging, all_jobs, unique_jobs, seen, master_data,
            master, jobs_json, remote, integrate_exit>>

\* the variables of the LinkedIn scraper process
liVars == <<li_pc, processedCount, allJobs, queried, paused, linkedin_raw,
            analyzer, promise>>

\* the variables of the dashboard page
dashVars == <<pageJobs, filteredJobs, currentSort, jobList, statsDisplay, uncaught>>

vars == <<wfVars, liVars, dashVars>>

-----------------------------------------------------------------------------
(* Bounds of the model *)

\* the largest number of job records the staging files hold together when
\* the integrator is run on its own
MaxJobs == 3

\* the largest number of job records the fetch phases of one run of the
\* workflow job write together
MaxFetched == 2

\* the number of search combinations the LinkedIn scraper goes through
MaxCombos == 2

\* the largest number of raw records the queries of one run of the
\* LinkedIn scraper return together
MaxFound == 2

\* the records the staging files served to the page hold together
MaxServed == 2

\* the records of the staging file the identifier is tried on
MaxColliding == 2

-----------------------------------------------------------------------------
(* Program constants *)

\* x.get('relevance_score', 0): the score the sort and the tally give a
\* record that has none
MissingScore == 0

\* j.get('relevance_score', 0) >= 80
HighRelevance == 80

\* relevance_score: 60 of the normalizer, "|| 60" of the dashboard
DefaultRelevance == 60

-----------------------------------------------------------------------------
(* Job records *)

Sources == <<"academic", "rss", "linkedin">>

SourceSet == {Sources[i] : i \in 1..Len(Sources)}

EmptyDict == [k \in {} |-> 0]

\* dict.get(key, default)
Get(d, k, default) == IF k \in DOMAIN d THEN d[k] ELSE default

\* The identifying fields a source may deliver: one URL under two titles,
\* and two records without URL.
IdentityCases ==
    { [source_url |-> u, title |-> t, company |-> "c"] :
        u \in {"u", ""}, t \in {"a", "b"} }

\* The scored and tallied fields a source may deliver: annotated records
\* on both sides of the thresholds, and a record with none of the fields.
Profiles ==
    { [relevance_score |-> 80, job_type |-> "faculty", category |-> "law",
       gemini_analyzed |-> TRUE, is_remote |-> TRUE],
      [relevance_score |-> 40, job_type |-> "industry", category |-> "research",
       gemini_analyzed |-> FALSE, is_remote |-> FALSE],
      EmptyDict }

SourceSite(s) ==
    CASE s = "academic" -> "academic_jobs_online"
      [] s = "rss"      -> "rss"
      [] s = "linkedin" -> "linkedin"

\* the records the fetch phase of source s can write
JobsOf(s) == { i @@ p @@ [source_site |-> SourceSite(s)] :
                 i \in IdentityCases, p \in Profiles }

SeqsUpTo(S, n) == UNION { [1..m -> S] : m \in 0..n }

-----------------------------------------------------------------------------
(* Files *)

Missing == [kind |-> "missing"]

\* a file that is not valid JSON (a write that was cut short)
Corrupt == [kind |-> "corrupt"]

\* a staging file of shape {jobs: [...]}
StagingFile(jobs) == [kind |-> "object", data |-> [jobs |-> jobs]]

\* valid JSON whose top-level value is a list, not an object (the shape
\* of data/linkedin_raw.json)
JsonArray == [kind |-> "array", data |-> <<>>]

\* a JSON object that has no "jobs" entry
ObjectWithoutJobs == [kind |-> "object", data |-> [metadata |-> EmptyDict]]

\* a JSON object whose "jobs" entry is null, not a list
ObjectJobsNull == [kind |-> "null_jobs", data |-> [jobs |-> "null"]]

\* the well-formed JSON files that are not of shape {jobs: [...]}
OtherShapes == {JsonArray, ObjectWithoutJobs, ObjectJobsNull}

\* a completely written artifact
Complete(data) == [kind |-> "complete", data |-> data]

\* the file between open(..., 'w') and the end of json.dump
Truncated == [kind |-> "truncated"]

StagedCount ==
    LET n(s) == IF staging[s].kind = "object"
                THEN Len(Get(staging[s].data, "jobs", <<>>)) ELSE 0
    IN  n("academic") + n("rss") + n("linkedin")

-----------------------------------------------------------------------------
(* integrate_data.py *)

\* load_json_safely whose default is not empty
load_json_demo(file) ==
    IF file.kind \in {"missing", "corrupt"}
    THEN [jobs |-> <<[title |-> "demo", company |-> "demo"]>>, metadata |-> EmptyDict]
    ELSE file.data

\* load_json_safely(filepath): the parsed file, or the empty default when
\* the file cannot be opened or parsed
load_json_safely(file) ==
    IF file.kind \in {"missing", "corrupt"}
    THEN [jobs |-> <<>>, metadata |-> EmptyDict]
    ELSE file.data

\* "<source>_data.get('jobs', [])" on a parsed value that is a list:
\* AttributeError, 'list' object has no attribute 'get'
GetRaises(file) == file.kind = "array"

\* "all_jobs.extend(None)": TypeError, 'NoneType' object is not iterable
ExtendRaises(file) == file.kind = "null_jobs"

\* the script ends with a traceback before it has combined the sources
ScriptRaises(files) ==
    \E s \in SourceSet : GetRaises(files[s]) \/ ExtendRaises(files[s])

\* the combination without "all_jobs.extend(rss_data.get('jobs', []))"
CombineWithoutRss(academic_data, rss_data, linkedin_data) ==
    Get(academic_data, "jobs", <<>>) \o Get(linkedin_data, "jobs", <<>>)

\* the three extend calls in the opposite order
CombineLinkedInFirst(academic_data, rss_data, linkedin_data) ==
    Get(linkedin_data, "jobs", <<>>) \o Get(rss_data, "jobs", <<>>)
        \o Get(academic_data, "jobs", <<>>)

\* all_jobs = []; all_jobs.extend(academic ...); ...extend(rss ...);
\* ...extend(linkedin ...)
Combine(academic_data, rss_data, linkedin_data) ==
    Get(academic_data, "jobs", <<>>) \o Get(rss_data, "jobs", <<>>)
        \o Get(linkedin_data, "jobs", <<>>)

\* identifier with the two branches swapped: title and company first
identifierTitleFirst(job) ==
    LET url == Get(job, "source_url", "")
        title_company == Get(job, "title", "") \o "-" \o Get(job, "company", "")
    IN  IF title_company # "-" THEN title_company ELSE url

\* identifier = url if url else title_company
identifier(job) ==
    LET url == Get(job, "source_url", "")
        title_company == Get(job, "title", "") \o "-" \o Get(job, "company", "")
    IN  IF url # "" THEN url ELSE title_company

\* an iteration that forgets an identifier when it meets it again
DedupStepForgets(acc, job) ==
    IF identifier(job) \notin acc.seen
    THEN [seen |-> acc.seen \cup {identifier(job)},
          unique_jobs |-> Append(acc.unique_jobs, job)]
    ELSE [seen |-> acc.seen \ {identifier(job)}, unique_jobs |-> acc.unique_jobs]

\* the iteration without its "if identifier not in seen"
DedupStepNoCheck(acc, job) ==
    [seen |-> acc.seen \cup {identifier(job)},
     unique_jobs |-> Append(acc.unique_jobs, job)]

\* one iteration of "for job in all_jobs": acc holds seen and unique_jobs
DedupStep(acc, job) ==
    IF identifier(job) \notin acc.seen
    THEN [seen |-> acc.seen \cup {identifier(job)},
          unique_jobs |-> Append(acc.unique_jobs, job)]
    ELSE acc

RECURSIVE DedupLoop(_, _)
\* the loop over jobs from the state acc
DedupLoop(acc, jobs) ==
    IF jobs = <<>> THEN acc
    ELSE DedupLoop(DedupStep(acc, Head(jobs)), Tail(jobs))

\* seen = set(); unique_jobs = []; for job in all_jobs: ...
Dedup(jobs) == DedupLoop([seen |-> {}, unique_jobs |-> <<>>], jobs)

\* key=lambda x: x.get('relevance_score', 0)
sort_key(x) == Get(x, "relevance_score", MissingScore)

\* the insertion of a sort that is not stable: x goes before the records
\* of its own key
InsertSortedUnstable(sorted, x) ==
    LET n == Cardinality({ i \in 1..Len(sorted) : sort_key(sorted[i]) > sort_key(x) })
    IN  SubSeq(sorted, 1, n) \o <<x>> \o SubSeq(sorted, n + 1, Len(sorted))

\* Where list.sort(key=..., reverse=True) puts x among the records sorted so
\* far: after every record whose key is at least x's (the sort is stable,
\* and reverse=True keeps the order of equal keys).
InsertSorted(sorted, x) ==
    LET n == Cardinality({ i \in 1..Len(sorted) : sort_key(sorted[i]) >= sort_key(x) })
    IN  SubSeq(sorted, 1, n) \o <<x>> \o SubSeq(sorted, n + 1, Len(sorted))

RECURSIVE SortLoop(_, _)
SortLoop(sorted, jobs) ==
    IF jobs = <<>> THEN sorted
    ELSE SortLoop(InsertSorted(sorted, Head(jobs)), Tail(jobs))

\* a sort that leaves out the records without a score
SortScoredOnly(jobs) ==
    SortLoop(<<>>, SelectSeq(jobs, LAMBDA x : "relevance_score" \in DOMAIN x))

\* unique_jobs.sort(key=lambda x: x.get('relevance_score', 0), reverse=True)
SortByRelevance(jobs) == SortLoop(<<>>, jobs)

\* len([j for j in unique_jobs if j.get('relevance_score', 0) >= 80])
\* counts the records of which this holds
IsHighRelevance(j) == Get(j, "relevance_score", MissingScore) >= HighRelevance

IsGeminiAnalyzed(j) == Get(j, "gemini_analyzed", FALSE)

IsRemote(j) == Get(j, "is_remote", FALSE)

RECURSIVE TallyLoopNoIncrement(_, _, _)
\* the loop with "counts[k] = 1" for "counts[k] = counts.get(k, 0) + 1"
TallyLoopNoIncrement(counts, jobs, field) ==
    IF jobs = <<>> THEN counts
    ELSE LET k == Get(Head(jobs), field, "unknown")
         IN  TallyLoopNoIncrement((k :> 1) @@ counts, Tail(jobs), field)

RECURSIVE TallyLoop(_, _, _)
\* for job in unique_jobs: k = job.get(field, 'unknown');
\*     counts[k] = counts.get(k, 0) + 1
TallyLoop(counts, jobs, field) ==
    IF jobs = <<>> THEN counts
    ELSE LET k == Get(Head(jobs), field, "unknown")
         IN  TallyLoop((k :> (Get(counts, k, 0) + 1)) @@ counts, Tail(jobs), field)

\* stats = {...} of the sorted unique_jobs u, the combined list a and the
\* three loaded files, followed by the by_job_type / by_category loop
Stats(u, a, academic_data, rss_data, linkedin_data) ==
    [total_jobs         |-> Len(u),
     academic_jobs      |-> Len(Get(academic_data, "jobs", <<>>)),
     jsearch_jobs       |-> 0,
     rss_jobs           |-> Len(Get(rss_data, "jobs", <<>>)),
     linkedin_jobs      |-> Len(Get(linkedin_data, "jobs", <<>>)),
     duplicates_removed |-> Len(a) - Len(u),
     high_relevance     |-> Cardinality({ i \in 1..Len(u) : IsHighRelevance(u[i]) }),
     gemini_analyzed    |-> Cardinality({ i \in 1..Len(u) : IsGeminiAnalyzed(u[i]) }),
     remote_jobs        |-> Cardinality({ i \in 1..Len(u) : IsRemote(u[i]) }),
     by_job_type        |-> TallyLoop(EmptyDict, u, "job_type"),
     by_category        |-> TallyLoop(EmptyDict, u, "category"),
     sources            |-> [academic |-> Len(Get(academic_data, "jobs", <<>>)),
                             jsearch  |-> 0,
                             rss      |-> Len(Get(rss_data, "jobs", <<>>)),
                             linkedin |-> Len(Get(linkedin_data, "jobs", <<>>))]]

\* master_data = {'jobs': ..., 'stats': ..., 'metadata': {...}} (the two
\* timestamps of the metadata are left out)
MasterData(u, st) ==
    [jobs     |-> u,
     stats    |-> st,
     metadata |-> [total_unique_jobs  |-> Len(u),
                   sources_integrated |-> <<"academic", "rss", "linkedin">>,
                   note |-> "JSearch temporarily disabled due to quota limits"]]

\* The script from its first line to master_data, on the three staging files
Integrated(files) ==
    LET academic_data == load_json_safely(files["academic"])
        rss_data      == load_json_safely(files["rss"])
        linkedin_data == load_json_safely(files["linkedin"])
        a  == Combine(academic_data, rss_data, linkedin_data)
        d  == Dedup(a)
        u  == SortByRelevance(d.unique_jobs)
        st == Stats(u, a, academic_data, rss_data, linkedin_data)
    IN  [all_jobs |-> a, seen |-> d.seen, unique_jobs |-> u,
         master_data |-> MasterData(u, st)]

\* the artifact an earlier run left in the repository
PrevArtifact ==
    Integrated([s \in SourceSet |->
        IF s = "academic"
        THEN StagingFile(<<[title |-> "p", company |-> "c", source_url |-> "u",
                            relevance_score |-> 80, source_site |-> SourceSite(s)]>>)
        ELSE Missing]).master_data

-----------------------------------------------------------------------------
(* linkedin_scraper.js: strings *)

UpperCase == "ABCDEFGHIJKLMNOPQRSTUVWXYZ"

LowerCase == "abcdefghijklmnopqrstuvwxyz"

\* one character of String.prototype.toLowerCase
LowerChar(c) ==
    IF \E i \in 1..Len(UpperCase) : SubSeq(UpperCase, i, i) = c
    THEN LET i == CHOOSE k \in 1..Len(UpperCase) : SubSeq(UpperCase, k, k) = c
         IN  SubSeq(LowerCase, i, i)
    ELSE c

\* the characters of s from the i-th on, in lower case
RECURSIVE LowerFrom(_, _)
LowerFrom(s, i) ==
    IF i > Len(s) THEN ""
    ELSE LowerChar(SubSeq(s, i, i)) \o LowerFrom(s, i + 1)

\* String.prototype.toLowerCase
toLowerCase(s) == LowerFrom(s, 1)

\* String.prototype.includes
includes(s, k) ==
    \E i \in 1..(Len(s) - Len(k) + 1) : SubSeq(s, i, i + Len(k) - 1) = k

\* "x || d" on a field of a raw record: the default for a field that is
\* undefined, null or the empty string
OrDefault(job, field, d) ==
    IF field \in DOMAIN job /\ job[field] # "" THEN job[field] ELSE d

\* `${x}` in a template literal
Interpolated(job, field) ==
    IF field \in DOMAIN job THEN job[field] ELSE "undefined"

-----------------------------------------------------------------------------
(* linkedin_scraper.js: the normalizer *)

\* the decision list with the fourth test made first
determineJobTypeNonprofitFirst(company) ==
    LET companyLower == toLowerCase(company)
    IN  IF includes(companyLower, "foundation") \/ includes(companyLower, "nonprofit")
        THEN "nonprofit"
        ELSE IF includes(companyLower, "university") \/ includes(companyLower, "college")
        THEN "faculty"
        ELSE IF includes(companyLower, "government") \/ includes(companyLower, "federal")
        THEN "government"
        ELSE IF includes(companyLower, "united nations") \/ includes(companyLower, "oecd")
        THEN "international"
        ELSE "industry"

\* function determineJobType(company), for a company that is a string
determineJobType(company) ==
    LET companyLower == toLowerCase(company)
    IN  IF includes(companyLower, "university") \/ includes(companyLower, "college")
        THEN "faculty"
        ELSE IF includes(companyLower, "government") \/ includes(companyLower, "federal")
        THEN "government"
        ELSE IF includes(companyLower, "united nations") \/ includes(companyLower, "oecd")
        THEN "international"
        ELSE IF includes(companyLower, "foundation") \/ includes(companyLower, "nonprofit")
        THEN "nonprofit"
        ELSE "industry"

\* [...new Set(tags)]: the first occurrence of every string, in order
SetOrder(tags) ==
    LET first == { i \in 1..Len(tags) : \A j \in 1..(i - 1) : tags[j] # tags[i] }
        nth(k) == CHOOSE i \in first : Cardinality({ j \in first : j <= i }) = k
    IN  [k \in 1..Cardinality(first) |-> tags[nth(k)]]

\* the tags as pushed, before "[...new Set(tags)]"
PushedTags(title, searchQuery) ==
    LET content == toLowerCase(title)
        push(cond, tag) == IF cond THEN <<tag>> ELSE <<>>
    IN  <<searchQuery>>
        \o push(includes(content, "ai")
                    \/ includes(content, "artificial intelligence"), "AI")
        \o push(includes(content, "ethics"), "Ethics")
        \o push(includes(content, "policy"), "Policy")
        \o push(includes(content, "research"), "Research")
        \o push(includes(content, "senior") \/ includes(content, "lead"), "Senior")

\* generateTags that returns tags as pushed, without "[...new Set(tags)]"
generateTagsNoSet(title, searchQuery) == PushedTags(title, searchQuery)

\* function generateTags(title, searchQuery), for a title that is a string
generateTags(title, searchQuery) == SetOrder(PushedTags(title, searchQuery))

\* "company.toLowerCase()" and "title.toLowerCase()" on undefined or null:
\* TypeError, raised from inside jobs.map
MapRaises(job) == "company" \notin DOMAIN job \/ "position" \notin DOMAIN job

\* new Date().toISOString().split('T')[0]
Today == "2026-01-01"

\* "combo.location === 'Remote' || job.location?.toLowerCase()
\* .includes('remote')": true, false, or undefined for a record without
\* location, and JSON.stringify leaves an undefined property out
IsRemoteField(job, c) ==
    IF c.location = "Remote" THEN [is_remote |-> TRUE]
    ELSE IF "location" \in DOMAIN job
    THEN [is_remote |-> includes(toLowerCase(job.location), "remote")]
    ELSE EmptyDict

\* the object literal of jobs.map(job => ({...})), for a record on which
\* it does not raise
ProcessedJob(job, c) ==
    [title |-> OrDefault(job, "position", "Unknown Position"),
     company |-> OrDefault(job, "company", "Unknown Company"),
     location |-> OrDefault(job, "location", c.location),
     job_type |-> determineJobType(job.company),
     category |-> "research",
     description |-> "LinkedIn: " \o Interpolated(job, "position") \o " at "
                        \o Interpolated(job, "company") \o ". Query: " \o c.keyword,
     posting_date |-> OrDefault(job, "date", Today),
     deadline |-> "null",
     source_url |-> OrDefault(job, "jobUrl", ""),
     source_site |-> "linkedin",
     tags |-> generateTags(job.position, c.keyword),
     relevance_score |-> DefaultRelevance,
     salary_info |-> OrDefault(job, "salary", ""),
     search_query |-> c.keyword,
     experience_level |-> c.experienceLevel,
     company_logo |-> OrDefault(job, "companyLogo", ""),
     ago_time |-> OrDefault(job, "agoTime", ""),
     gemini_analyze |-> Get(c, "gemini_analyze", FALSE)]
    @@ IsRemoteField(job, c)

\* jobs.map(job => ({...})), when no record makes it raise
ProcessedJobs(found, c) == [i \in 1..Len(found) |-> ProcessedJob(found[i], c)]

-----------------------------------------------------------------------------
(* index.html: the dashboard *)

\* const key = job.source_url || `${job.title}-${job.company}`
DedupKey(job) ==
    OrDefault(job, "source_url",
              Interpolated(job, "title") \o "-" \o Interpolated(job, "company"))

\* jobs.filter(job => { ... }) of removeDuplicateJobs, from the Set seenKeys
RECURSIVE FilterUnseen(_, _)
FilterUnseen(seenKeys, jobs) ==
    IF jobs = <<>> THEN <<>>
    ELSE IF DedupKey(Head(jobs)) \in seenKeys
    THEN FilterUnseen(seenKeys, Tail(jobs))
    ELSE <<Head(jobs)>> \o FilterUnseen(seenKeys \cup {DedupKey(Head(jobs))}, Tail(jobs))

\* function removeDuplicateJobs(jobs)
removeDuplicateJobs(jobs) == FilterUnseen({}, jobs)

-----------------------------------------------------------------------------
(* linkedin_scraper.js: the scraper process and the analyzer it spawns *)

\* the head of the searchCombinations list
AllCombinations ==
    <<[keyword |-> "AI ethics", location |-> "United States", experienceLevel |-> ""],
      [keyword |-> "AI ethics", location |-> "Remote", experienceLevel |-> ""],
      [keyword |-> "AI ethics", location |-> "Europe", experienceLevel |-> ""],
      [keyword |-> "responsible AI", location |-> "United States", experienceLevel |-> ""]>>

\* the combinations of a run of the model
searchCombinations == SubSeq(AllCombinations, 1, MaxCombos)

\* The raw records linkedIn.query may return in a run of the scraper: a
\* complete one, one without company, one without location and URL.
RawJobs ==
    { [position |-> "AI Ethics Researcher", company |-> "University of Law Foundation",
       location |-> "Remote, US", jobUrl |-> "u"],
      [position |-> "Chair", location |-> "Boston", jobUrl |-> "v"],
      [position |-> "Senior Policy Lead", company |-> "Acme"] }

\* the raw records all queries of the run have returned so far
FoundCount ==
    LET RECURSIVE Sum(_)
        Sum(i) == IF i = 0 THEN 0 ELSE Len(queried[i].found) + Sum(i - 1)
    IN  Sum(Len(queried))

\* the entry of the query that is under way
LastQuery == queried[Len(queried)]

Ended(outcome) == [queried EXCEPT ![Len(queried)].outcome = outcome]

\* the scraper process has not been started
ScraperIdle ==
    /\ li_pc = "start"
    /\ processedCount = 0
    /\ allJobs = <<>>
    /\ queried = <<>>
    /\ paused = FALSE
    /\ linkedin_raw = Missing
    /\ analyzer = "not_started"
    /\ promise = "none"

\* "let allJobs = []; let filteredJobs = []; let currentSort = 'relevance'":
\* the page has not been opened
PageNotOpened ==
    /\ pageJobs = <<>>
    /\ filteredJobs = <<>>
    /\ currentSort = "relevance"
    /\ jobList = "loading"
    /\ statsDisplay = "loading"
    /\ uncaught = FALSE

\* "for (const combo of searchCombinations) { processedCount++; ...
\* await linkedIn.query(queryOptions)": the next combination is taken and
\* its query is sent
QueryStarts ==
    /\ li_pc = "loop"
    /\ processedCount < Len(searchCombinations)
    /\ processedCount' = processedCount + 1
    /\ queried' = Append(queried, [combo |-> searchCombinations[processedCount + 1],
                                   paused |-> paused, outcome |-> "pending",
                                   found |-> <<>>])
    /\ paused' = FALSE
    /\ li_pc' = "await"
    /\ UNCHANGED <<allJobs, linkedin_raw, analyzer, promise>>
    /\ UNCHANGED wfVars
    /\ UNCHANGED dashVars

\* "const jobs = await linkedIn.query(queryOptions)": the query returns
QueryReturns ==
    /\ li_pc = "await"
    /\ \E found \in SeqsUpTo(RawJobs, MaxFound - FoundCount) :
           queried' = [queried EXCEPT ![Len(queried)].found = found]
    /\ li_pc' = "map"
    /\ UNCHANGED <<processedCount, allJobs, paused, linkedin_raw, analyzer, promise>>
    /\ UNCHANGED wfVars
    /\ UNCHANGED dashVars

\* a catch block that also drops what the earlier queries have collected
QueryThrowsDropsCollected ==
    /\ li_pc = "await"
    /\ queried' = Ended("threw")
    /\ allJobs' = <<>>
    /\ li_pc' = "loop"
    /\ UNCHANGED <<processedCount, paused, linkedin_raw, analyzer, promise>>
    /\ UNCHANGED wfVars
    /\ UNCHANGED dashVars

\* the query rejects: "catch (error) { console.log(...) }", and the loop
\* goes on with the next combination
QueryThrows ==
    /\ li_pc = "await"
    /\ queried' = Ended("threw")
    /\ li_pc' = "loop"
    /\ UNCHANGED <<processedCount, allJobs, paused, linkedin_raw, analyzer, promise>>
    /\ UNCHANGED wfVars
    /\ UNCHANGED dashVars

\* the promise of linkedIn.query never settles: the await has no timeout
\* and the scraper stays where it is
QueryHangs ==
    /\ li_pc = "await"
    /\ queried' = Ended("hung")
    /\ li_pc' = "hung"
    /\ UNCHANGED <<processedCount, allJobs, paused, linkedin_raw, analyzer, promise>>
    /\ UNCHANGED wfVars
    /\ UNCHANGED dashVars

\* "const processedJobs = jobs.map(...); allJobs = allJobs.concat(
\* processedJobs)", or the TypeError of the map caught by the catch block
MapJobs ==
    /\ li_pc = "map"
    /\ \/ /\ \E i \in 1..Len(LastQuery.found) : MapRaises(LastQuery.found[i])
          /\ queried' = Ended("map_raised")
          /\ li_pc' = "loop"
          /\ allJobs' = allJobs
       \/ /\ \A i \in 1..Len(LastQuery.found) : ~MapRaises(LastQuery.found[i])
          /\ queried' = Ended("ok")
          /\ allJobs' = allJobs \o ProcessedJobs(LastQuery.found, LastQuery.combo)
          /\ li_pc' = "pause"
    /\ UNCHANGED <<processedCount, paused, linkedin_raw, analyzer, promise>>
    /\ UNCHANGED wfVars
    /\ UNCHANGED dashVars

\* "await new Promise(resolve => setTimeout(resolve, 1000))"
Pause ==
    /\ li_pc = "pause"
    /\ paused' = TRUE
    /\ li_pc' = "loop"
    /\ UNCHANGED <<processedCount, allJobs, queried, linkedin_raw, analyzer, promise>>
    /\ UNCHANGED wfVars
    /\ UNCHANGED dashVars

\* "fs.writeFileSync('data/linkedin_raw.json', JSON.stringify(allJobs))"
\* after the loop, then "spawn('python3', ['linkedin_gemini_analyzer.py'])"
SaveRawAndSpawn ==
    /\ li_pc = "loop"
    /\ processedCount = Len(searchCombinations)
    /\ linkedin_raw' = [kind |-> "array", data |-> allJobs]
    /\ analyzer' = "running"
    /\ promise' = "pending"
    /\ li_pc' = "wait"
    /\ UNCHANGED <<processedCount, allJobs, queried, paused>>
    /\ UNCHANGED wfVars
    /\ UNCHANGED dashVars

-----------------------------------------------------------------------------
(* The workflow job *)

\* the step that follows the fetch phase of source s
StepAfter(s) ==
    CASE s = "academic" -> "rss"
      [] s = "rss"      -> "linkedin"
      [] s = "linkedin" -> "integrate"

\* The workspace after checkout and "mkdir -p data": the artifact of the
\* earlier run, and its legacy copy, are the ones on origin/main.
Init ==
    /\ pc = "academic"
    /\ hung = "none"
    /\ staging = [s \in SourceSet |-> Missing]
    /\ all_jobs = <<>>
    /\ unique_jobs = <<>>
    /\ seen = {}
    /\ master_data = EmptyDict
    /\ master = Complete(PrevArtifact)
    /\ jobs_json = master
    /\ remote = master
    /\ integrate_exit = "not_run"
    /\ ScraperIdle
    /\ PageNotOpened

\* "python <scraper> || echo ...": the scraper writes its staging file
FetchSucceeds(s) ==
    /\ pc = s
    /\ hung = "none"
    /\ \E jobs \in SeqsUpTo(JobsOf(s), MaxFetched - StagedCount) :
           staging' = [staging EXCEPT ![s] = StagingFile(jobs)]
    /\ pc' = StepAfter(s)
    /\ UNCHANGED <<hung, all_jobs, unique_jobs, seen, master_data, master,
                   jobs_json, remote, integrate_exit>>
    /\ UNCHANGED liVars
    /\ UNCHANGED dashVars

\* "... || echo '... had issues, continuing...'" and "if [ -f data/... ];
\* then ... else echo 'No ... data generated'": the scraper exits non-zero,
\* or exits without output, and there is no staging file
FetchFails(s) ==
    /\ pc = s
    /\ hung = "none"
    /\ staging[s] = Missing
    /\ pc' = StepAfter(s)
    /\ UNCHANGED <<hung, staging, all_jobs, unique_jobs, seen, master_data, master,
                   jobs_json, remote, integrate_exit>>
    /\ UNCHANGED liVars
    /\ UNCHANGED dashVars

\* "timeout 20m npm run scrape || echo ...": the LinkedIn scraper is killed
\* after twenty minutes and the step goes on; a file it was writing is cut
\* short
LinkedInTimesOut ==
    /\ pc = "linkedin"
    /\ hung = "none"
    /\ \E file \in {Missing, Corrupt} :
           staging' = [staging EXCEPT !["linkedin"] = file]
    /\ pc' = "integrate"
    /\ UNCHANGED <<hung, all_jobs, unique_jobs, seen, master_data, master,
                   jobs_json, remote, integrate_exit>>
    /\ UNCHANGED liVars
    /\ UNCHANGED dashVars

\* "python ac_scraper.py" and "python rss_scraper.py" run under no timeout
\* of their own: a scraper that does not return keeps its step running
FetchHangs(s) ==
    /\ s \in {"academic", "rss"}
    /\ pc = s
    /\ hung = "none"
    /\ hung' = s
    /\ UNCHANGED <<pc, staging, all_jobs, unique_jobs, seen, master_data, master,
                   jobs_json, remote, integrate_exit>>
    /\ UNCHANGED liVars
    /\ UNCHANGED dashVars

\* "timeout-minutes: 45": the job is cancelled with the step that still
\* runs, and none of the later steps is run
JobTimeout ==
    /\ hung # "none"
    /\ pc = hung
    /\ pc' = "cancelled"
    /\ UNCHANGED <<hung, staging, all_jobs, unique_jobs, seen, master_data,
                   master, jobs_json, remote, integrate_exit>>
    /\ UNCHANGED liVars
    /\ UNCHANGED dashVars

\* the scraper, or the annotator it runs, leaves a staging file that is
\* valid JSON of another shape than {jobs: [...]}
FetchWritesOtherShape(s) ==
    /\ pc = s
    /\ hung = "none"
    /\ \E file \in OtherShapes : staging' = [staging EXCEPT ![s] = file]
    /\ pc' = StepAfter(s)
    /\ UNCHANGED <<hung, all_jobs, unique_jobs, seen, master_data, master,
                   jobs_json, remote, integrate_exit>>
    /\ UNCHANGED liVars
    /\ UNCHANGED dashVars

\* integrate_data.py up to a .get or an extend that raises: the script
\* ends with a traceback before it opens the master file, the step fails
\* and the job skips its later steps
IntegrateRaises ==
    /\ pc = "integrate"
    /\ ScriptRaises(staging)
    /\ integrate_exit' = "nonzero"
    /\ pc' = "failed"
    /\ UNCHANGED <<hung, staging, all_jobs, unique_jobs, seen, master_data,
                   master, jobs_json, remote>>
    /\ UNCHANGED liVars
    /\ UNCHANGED dashVars

\* integrate_data.py from its first line up to the save
RunScript ==
    LET r == Integrated(staging)
    IN  /\ all_jobs' = r.all_jobs
        /\ seen' = r.seen
        /\ unique_jobs' = r.unique_jobs
        /\ master_data' = r.master_data

\* "with open('data/all_jobs_integrated.json', 'w', ...) as f": the open
\* empties the file that is there
IntegrateOpen ==
    /\ pc = "integrate"
    /\ ~ScriptRaises(staging)
    /\ RunScript
    /\ master' = Truncated
    /\ pc' = "writing"
    /\ UNCHANGED <<hung, staging, jobs_json, remote, integrate_exit>>
    /\ UNCHANGED liVars
    /\ UNCHANGED dashVars

\* the open raises OSError: the script ends with a traceback, the step
\* fails and the job skips its later steps
IntegrateOpenFails ==
    /\ pc = "integrate"
    /\ ~ScriptRaises(staging)
    /\ RunScript
    /\ integrate_exit' = "nonzero"
    /\ pc' = "failed"
    /\ UNCHANGED <<hung, staging, master, jobs_json, remote>>
    /\ UNCHANGED liVars
    /\ UNCHANGED dashVars

\* "json.dump(master_data, f, ensure_ascii=False, indent=2)" and the close
IntegrateDump ==
    /\ pc = "writing"
    /\ master' = Complete(master_data)
    /\ integrate_exit' = "zero"
    /\ pc' = "legacy"
    /\ UNCHANGED <<hung, staging, all_jobs, unique_jobs, seen, master_data,
                   jobs_json, remote>>
    /\ UNCHANGED liVars
    /\ UNCHANGED dashVars

\* json.dump raises OSError part way (the disk is full, say): what was
\* written so far stays in the file, the step fails
IntegrateDumpFails ==
    /\ pc = "writing"
    /\ integrate_exit' = "nonzero"
    /\ pc' = "failed"
    /\ UNCHANGED <<hung, staging, all_jobs, unique_jobs, seen, master_data,
                   master, jobs_json, remote>>
    /\ UNCHANGED liVars
    /\ UNCHANGED dashVars

\* "if [ -f data/all_jobs_integrated.json ]; then cp ... data/jobs.json"
UpdateLegacy ==
    /\ pc = "legacy"
    /\ jobs_json' = IF master.kind # "missing" THEN master ELSE jobs_json
    /\ pc' = "commit"
    /\ UNCHANGED <<hung, staging, all_jobs, unique_jobs, seen, master_data,
                   master, remote, integrate_exit>>
    /\ UNCHANGED liVars
    /\ UNCHANGED dashVars

\* "git add data/ ... git commit ... git push origin main": one of the
\* three attempts goes through
CommitAndPush ==
    /\ pc = "commit"
    /\ remote' = master
    /\ pc' = "done"
    /\ UNCHANGED <<hung, staging, all_jobs, unique_jobs, seen, master_data,
                   master, jobs_json, integrate_exit>>
    /\ UNCHANGED liVars
    /\ UNCHANGED dashVars

\* "for i in {1..3}; do if git push ...": all three attempts fail; the loop
\* ends with the status of its last command and the step succeeds
PushFails ==
    /\ pc = "commit"
    /\ pc' = "done"
    /\ UNCHANGED <<hung, staging, all_jobs, unique_jobs, seen, master_data,
                   master, jobs_json, remote, integrate_exit>>
    /\ UNCHANGED liVars
    /\ UNCHANGED dashVars

Next ==
    \/ \E s \in SourceSet : FetchSucceeds(s)
    \/ \E s \in SourceSet : FetchFails(s)
    \/ LinkedInTimesOut
    \/ \E s \in SourceSet : FetchWritesOtherShape(s)
    \/ \E s \in SourceSet : FetchHangs(s)
    \/ JobTimeout
    \/ IntegrateRaises
    \/ IntegrateOpen
    \/ IntegrateOpenFails
    \/ IntegrateDump
    \/ IntegrateDumpFails
    \/ UpdateLegacy
    \/ CommitAndPush
    \/ PushFails

Spec == Init /\ [][Next]_vars

-----------------------------------------------------------------------------
(* integrate_data.py on its own *)

\* The job at the step "Integrate and analyze all data", the fetch phases
\* having written any staging files of at most MaxJobs records together.
InitIntegrate ==
    /\ pc = "integrate"
    /\ hung = "none"
    /\ \E a \in SeqsUpTo(JobsOf("academic"), MaxJobs) :
         \E r \in SeqsUpTo(JobsOf("rss"), MaxJobs - Len(a)) :
           \E l \in SeqsUpTo(JobsOf("linkedin"), MaxJobs - Len(a) - Len(r)) :
             staging = [s \in SourceSet |->
                          StagingFile(CASE s = "academic" -> a
                                        [] s = "rss"      -> r
                                        [] s = "linkedin" -> l)]
    /\ all_jobs = <<>>
    /\ unique_jobs = <<>>
    /\ seen = {}
    /\ master_data = EmptyDict
    /\ master = Complete(PrevArtifact)
    /\ jobs_json = master
    /\ remote = master
    /\ integrate_exit = "not_run"
    /\ ScraperIdle
    /\ PageNotOpened

NextIntegrate ==
    \/ IntegrateOpen
    \/ IntegrateDump

SpecIntegrate == InitIntegrate /\ [][NextIntegrate]_vars

-----------------------------------------------------------------------------
(* The LinkedIn step: the analyzer, the end of the scraper, the timeout *)

\* What linkedin_gemini_analyzer.py makes of the raw records: the same
\* records with the annotation fields set.
Annotated(raw) ==
    [i \in 1..Len(raw) |->
        [category |-> "policy", relevance_score |-> HighRelevance,
         gemini_analyzed |-> TRUE] @@ raw[i]]

\* the analyzer opens data/linkedin_gemini_jobs.json and starts to write
AnalyzerOpens ==
    /\ analyzer = "running"
    /\ staging' = [staging EXCEPT !["linkedin"] = Corrupt]
    /\ analyzer' = "writing"
    /\ UNCHANGED <<pc, hung, all_jobs, unique_jobs, seen, master_data, master,
                   jobs_json, remote, integrate_exit>>
    /\ UNCHANGED <<li_pc, processedCount, allJobs, queried, paused, linkedin_raw,
                   promise>>
    /\ UNCHANGED dashVars

\* the analyzer has written the whole staging file and exits with code 0
AnalyzerFinishes ==
    /\ analyzer = "writing"
    /\ staging' = [staging EXCEPT
                      !["linkedin"] = StagingFile(Annotated(linkedin_raw.data))]
    /\ analyzer' = "exit_zero"
    /\ UNCHANGED <<pc, hung, all_jobs, unique_jobs, seen, master_data, master,
                   jobs_json, remote, integrate_exit>>
    /\ UNCHANGED <<li_pc, processedCount, allJobs, queried, paused, linkedin_raw,
                   promise>>
    /\ UNCHANGED dashVars

\* python3 does not find the script, or the analyzer ends with a
\* traceback: exit code other than 0, and no complete staging file
AnalyzerFails ==
    /\ analyzer \in {"running", "writing"}
    /\ analyzer' = "exit_nonzero"
    /\ UNCHANGED wfVars
    /\ UNCHANGED <<li_pc, processedCount, allJobs, queried, paused, linkedin_raw,
                   promise>>
    /\ UNCHANGED dashVars

\* the analyzer exits with code 0 and has written no staging file
AnalyzerExitsWithoutOutput ==
    /\ analyzer = "running"
    /\ analyzer' = "exit_zero"
    /\ UNCHANGED wfVars
    /\ UNCHANGED <<li_pc, processedCount, allJobs, queried, paused, linkedin_raw,
                   promise>>
    /\ UNCHANGED dashVars

\* a close handler that looks for the output file and not at the exit code
OnCloseIgnoresCode ==
    /\ pc = "linkedin"
    /\ li_pc = "wait"
    /\ analyzer \in {"exit_zero", "exit_nonzero"}
    /\ promise' = IF staging["linkedin"].kind # "missing"
                  THEN "resolved" ELSE "rejected"
    /\ li_pc' = "exited"
    /\ pc' = "integrate"
    /\ UNCHANGED <<hung, staging, all_jobs, unique_jobs, seen, master_data, master,
                   jobs_json, remote, integrate_exit>>
    /\ UNCHANGED <<processedCount, allJobs, queried, paused, linkedin_raw, analyzer>>
    /\ UNCHANGED dashVars

\* "pythonProcess.on('close', (code) => { if (code === 0) { if (fs.
\* existsSync('data/linkedin_gemini_jobs.json')) ... resolve(enhancedData)
\* else reject(...) } else reject(...) })"; then the process has nothing
\* left to wait for and exits, and the step goes on to its end
OnClose ==
    /\ pc = "linkedin"
    /\ li_pc = "wait"
    /\ analyzer \in {"exit_zero", "exit_nonzero"}
    /\ promise' = IF analyzer = "exit_zero" /\ staging["linkedin"].kind # "missing"
                  THEN "resolved" ELSE "rejected"
    /\ li_pc' = "exited"
    /\ pc' = "integrate"
    /\ UNCHANGED <<hung, staging, all_jobs, unique_jobs, seen, master_data, master,
                   jobs_json, remote, integrate_exit>>
    /\ UNCHANGED <<processedCount, allJobs, queried, paused, linkedin_raw, analyzer>>
    /\ UNCHANGED dashVars

\* the signal of "timeout 20m" reaches the process group alone
NotSignalled(a) == a

\* "timeout 20m" signals the process group of "npm run scrape": the
\* analyzer, a child of the scraper, is ended with it
Signalled(a) == IF a \in {"running", "writing"} THEN "killed" ELSE a

\* "timeout 20m npm run scrape || echo ...": twenty minutes are over
\* while the scraper runs; it is ended where it is and the step goes on
ScraperTimeout ==
    /\ pc = "linkedin"
    /\ li_pc \in {"loop", "await", "hung", "map", "pause", "wait"}
    /\ li_pc' = "killed"
    /\ analyzer' = Signalled(analyzer)
    /\ pc' = "integrate"
    /\ UNCHANGED <<hung, staging, all_jobs, unique_jobs, seen, master_data, master,
                   jobs_json, remote, integrate_exit>>
    /\ UNCHANGED <<processedCount, allJobs, queried, paused, linkedin_raw, promise>>
    /\ UNCHANGED dashVars

\* The LinkedIn step at "npm run scrape", in a workspace where the two
\* earlier fetch phases have left no staging file.
InitLinkedIn ==
    /\ pc = "linkedin"
    /\ hung = "none"
    /\ staging = [s \in SourceSet |-> Missing]
    /\ all_jobs = <<>>
    /\ unique_jobs = <<>>
    /\ seen = {}
    /\ master_data = EmptyDict
    /\ master = Complete(PrevArtifact)
    /\ jobs_json = master
    /\ remote = master
    /\ integrate_exit = "not_run"
    /\ li_pc = "loop"
    /\ processedCount = 0
    /\ allJobs = <<>>
    /\ queried = <<>>
    /\ paused = FALSE
    /\ linkedin_raw = Missing
    /\ analyzer = "not_started"
    /\ promise = "none"
    /\ PageNotOpened

NextLinkedIn ==
    \/ QueryStarts
    \/ QueryReturns
    \/ QueryThrows
    \/ QueryHangs
    \/ MapJobs
    \/ Pause
    \/ SaveRawAndSpawn
    \/ AnalyzerOpens
    \/ AnalyzerFinishes
    \/ AnalyzerFails
    \/ AnalyzerExitsWithoutOutput
    \/ OnClose
    \/ ScraperTimeout
    \/ IntegrateOpen
    \/ IntegrateDump

SpecLinkedIn == InitLinkedIn /\ [][NextLinkedIn]_vars

\* the values of company, position and location the normalizer is tried on
Companies ==
    {"University of Law Foundation", "Boston COLLEGE", "Federal Nonprofit",
     "US Government", "United Nations Foundation", "OECD", "Ford Foundation",
     "Acme", ""}

Positions == {"AI Ethics Researcher", "Senior Policy Lead", "Chair", "AI", "Ethics"}

Locations == {"Remote, US", "Boston"}

\* a raw record carries each of the three fields or lacks it
NormalizerInputs ==
    { p @@ c @@ l :
        p \in {EmptyDict} \cup { [position |-> x] : x \in Positions },
        c \in {EmptyDict} \cup { [company |-> x] : x \in Companies },
        l \in {EmptyDict} \cup { [location |-> x] : x \in Locations } }

\* the combinations the normalizer is tried with: those of the list, and
\* keywords that are themselves one of the tags generateTags pushes
NormalizerCombos ==
    { searchCombinations[i] : i \in 1..Len(searchCombinations) }
    \cup { [keyword |-> k, location |-> "United States", experienceLevel |-> ""] :
             k \in {"AI", "Ethics"} }

\* The scraper where the first query has returned one raw record.
InitNormalize ==
    /\ pc = "linkedin"
    /\ hung = "none"
    /\ staging = [s \in SourceSet |-> Missing]
    /\ all_jobs = <<>>
    /\ unique_jobs = <<>>
    /\ seen = {}
    /\ master_data = EmptyDict
    /\ master = Complete(PrevArtifact)
    /\ jobs_json = master
    /\ remote = master
    /\ integrate_exit = "not_run"
    /\ li_pc = "map"
    /\ processedCount = 1
    /\ allJobs = <<>>
    /\ \E job \in NormalizerInputs : \E c \in NormalizerCombos :
           queried = <<[combo |-> c, paused |-> FALSE, outcome |-> "pending",
                        found |-> <<job>>]>>
    /\ paused = FALSE
    /\ linkedin_raw = Missing
    /\ analyzer = "not_started"
    /\ promise = "none"
    /\ PageNotOpened

NextNormalize == MapJobs

SpecNormalize == InitNormalize /\ [][NextNormalize]_vars

-----------------------------------------------------------------------------
(* index.html: the page *)

\* "fetch(path)", "response.json()" and ".jobs": the list the file
\* carries, or nothing when the file is absent or is not JSON (json()
\* rejects and the catch of that fetch takes over) or has no jobs entry
FetchedJobs(file) ==
    IF file.kind \in {"object", "complete"}
    THEN Get(file.data, "jobs", <<>>)
    ELSE <<>>

\* "stats.total || stats.total_jobs || 0"
ShownTotal(stats) ==
    IF Get(stats, "total", 0) # 0 THEN stats.total ELSE Get(stats, "total_jobs", 0)

\* calculateCombinedStats(jobs), as far as updateStats shows it
calculateCombinedStats(jobs) == [total |-> Len(jobs)]

\* "job.relevance_score || job.basic_relevance_score || 60"
ShownScore(job) ==
    IF Get(job, "relevance_score", 0) # 0 THEN job.relevance_score
    ELSE IF Get(job, "basic_relevance_score", 0) # 0 THEN job.basic_relevance_score
    ELSE DefaultRelevance

\* key_topics delivered as one text, not as a list of texts
TopicsAsText == "AI ethics"

\* the template of renderJobs on one record:
\* "job.key_topics.slice(0, 2).map(...)" is a TypeError when key_topics
\* is a text, since the slice of a text has no map
RenderRaises(job) ==
    "key_topics" \in DOMAIN job /\ job.key_topics = TopicsAsText

\* renderJobs(): what job-list shows afterwards, or "raised"
renderJobs(shown) ==
    IF shown = <<>> THEN "no_match"
    ELSE IF \E i \in 1..Len(shown) : RenderRaises(shown[i]) THEN "raised"
    ELSE "jobs"

\* the posting dates of the records, as the numbers new Date() makes of them
Timestamps == ("2025-01-01" :> 1) @@ ("2025-01-02" :> 2)

\* the order of the company names under localeCompare
Collation == ("c" :> 1) @@ ("d" :> 2)

\* the comparators of sortJobs: "less" when a goes before b, "more" when
\* b goes before a, "same" otherwise; new Date(undefined) is an invalid
\* date, a difference with it is NaN, and sort takes NaN for +0
Compare(type, a, b) ==
    LET d == CASE type = "relevance" -> ShownScore(b) - ShownScore(a)
               [] type = "date" ->
                    IF "posting_date" \in DOMAIN a /\ "posting_date" \in DOMAIN b
                    THEN Timestamps[b.posting_date] - Timestamps[a.posting_date]
                    ELSE 0
               [] type = "company" -> Collation[a.company] - Collation[b.company]
    IN  IF d < 0 THEN "less" ELSE IF d > 0 THEN "more" ELSE "same"

\* Array.prototype.sort is stable: x, met after the records of sorted,
\* goes before the first of them that the comparator puts after it
RECURSIVE InsertBy(_, _, _)
InsertBy(type, sorted, x) ==
    IF sorted = <<>> THEN <<x>>
    ELSE IF Compare(type, x, Head(sorted)) = "less"
         THEN <<x>> \o sorted
         ELSE <<Head(sorted)>> \o InsertBy(type, Tail(sorted), x)

RECURSIVE SortLoopBy(_, _, _)
SortLoopBy(type, sorted, rest) ==
    IF rest = <<>> THEN sorted
    ELSE SortLoopBy(type, InsertBy(type, sorted, Head(rest)), Tail(rest))

\* the comparator is not a consistent one on these records: two of them
\* are ordered although each is "same" as a third (the date comparator on
\* a record without posting_date)
Inconsistent(type, shown) ==
    \E i, j, k \in 1..Len(shown) :
        /\ Compare(type, shown[i], shown[k]) = "same"
        /\ Compare(type, shown[k], shown[j]) = "same"
        /\ Compare(type, shown[i], shown[j]) # "same"

Rearrangements(shown) ==
    { [i \in 1..Len(shown) |-> shown[p[i]]] :
        p \in { q \in [1..Len(shown) -> 1..Len(shown)] :
                  \A i, j \in 1..Len(shown) : i # j => q[i] # q[j] } }

\* "filteredJobs.sort(comparator)": the stable sort, and any order of the
\* records when the comparator is not consistent (the order is then
\* implementation-defined)
Sorted(type, shown) ==
    IF Inconsistent(type, shown) THEN Rearrangements(shown)
    ELSE {SortLoopBy(type, <<>>, shown)}

\* the filter callback of applyFilters on one record, its conditions in
\* the order && and || evaluate them: "raised" for the TypeError of
\* "job.location.toLowerCase()" or "job.description.toLowerCase()" on a
\* record without that field
FilterOne(job, jobType, category, location, keyword) ==
    IF ~(jobType = "all" \/ Get(job, "job_type", "undefined") = jobType) THEN "drop"
    ELSE IF ~(category = "all" \/ Get(job, "category", "undefined") = category) THEN "drop"
    ELSE IF location # "" /\ "location" \notin DOMAIN job THEN "raised"
    ELSE IF ~(location = "" \/ includes(toLowerCase(job.location), location)) THEN "drop"
    ELSE IF keyword = "" THEN "keep"
    ELSE IF includes(toLowerCase(job.title), keyword) THEN "keep"
    ELSE IF "description" \notin DOMAIN job THEN "raised"
    ELSE IF includes(toLowerCase(job.description), keyword) THEN "keep"
    ELSE IF includes(toLowerCase(job.company), keyword) THEN "keep"
    ELSE "drop"

RECURSIVE SelectKept(_, _, _, _, _)
SelectKept(shown, jobType, category, location, keyword) ==
    IF shown = <<>> THEN <<>>
    ELSE (IF FilterOne(Head(shown), jobType, category, location, keyword) = "keep"
          THEN <<Head(shown)>> ELSE <<>>)
         \o SelectKept(Tail(shown), jobType, category, location, keyword)

\* the records the fallback of loadJobs collects: data/jobs.json, then
\* the LinkedIn, the RSS and the academic staging file
FallbackJobs ==
    FetchedJobs(jobs_json) \o FetchedJobs(staging["linkedin"])
        \o FetchedJobs(staging["rss"]) \o FetchedJobs(staging["academic"])

\* "masterData.jobs && masterData.jobs.length > 0"
MasterServesJobs == FetchedJobs(remote) # <<>>

\* the records loadJobs arrives at: those of the artifact, or the
\* fallback's without their duplicates
LoadedJobs ==
    IF MasterServesJobs THEN FetchedJobs(remote)
    ELSE removeDuplicateJobs(FallbackJobs)

\* window load: loadJobs() as a whole, with the renderJobs() that ends it
\* and the loadDemoData() of its catch
LoadJobs ==
    /\ pc = "done"
    /\ jobList = "loading"
    /\ IF renderJobs(LoadedJobs) = "raised"
       THEN /\ pageJobs' = <<>>
            /\ filteredJobs' = <<>>
            /\ statsDisplay' = 0
            /\ jobList' = "no_data"
       ELSE /\ pageJobs' = LoadedJobs
            /\ filteredJobs' = LoadedJobs
            /\ statsDisplay' =
                 IF MasterServesJobs
                 THEN IF "stats" \in DOMAIN remote.data
                      THEN ShownTotal(remote.data.stats) ELSE statsDisplay
                 ELSE ShownTotal(calculateCombinedStats(LoadedJobs))
            /\ jobList' = renderJobs(LoadedJobs)
    /\ UNCHANGED <<currentSort, uncaught>>
    /\ UNCHANGED <<wfVars, liVars>>

\* the values the visitor can give the four filter controls
JobTypeChoices == {"all", "faculty"}

CategoryChoices == {"all", "law"}

LocationInputs == {"", "Bos"}

KeywordInputs == {"", "A", "Pol"}

SortChoices == {"relevance", "date", "company"}

\* sortJobs(type) on the list shown, with the renderJobs() that ends it
SortAndRender(type, shown) ==
    /\ currentSort' = type
    /\ filteredJobs' \in Sorted(type, shown)
    /\ IF renderJobs(shown) = "raised"
       THEN uncaught' = TRUE /\ jobList' = jobList
       ELSE uncaught' = FALSE /\ jobList' = renderJobs(shown)

\* the Search button: applyFilters() as a whole, with the
\* sortJobs(currentSort) that ends it
ApplyFilters ==
    /\ jobList # "loading"
    /\ \E jobType \in JobTypeChoices, category \in CategoryChoices,
          loc \in LocationInputs, kw \in KeywordInputs :
         LET location == toLowerCase(loc)
             keyword  == toLowerCase(kw)
         IN  IF \E i \in 1..Len(pageJobs) :
                    /\ FilterOne(pageJobs[i], jobType, category, location, keyword) = "raised"
               THEN /\ uncaught' = TRUE
                    /\ UNCHANGED <<filteredJobs, currentSort, jobList>>
               ELSE SortAndRender(currentSort,
                        SelectKept(pageJobs, jobType, category, location, keyword))
    /\ UNCHANGED <<pageJobs, statsDisplay>>
    /\ UNCHANGED <<wfVars, liVars>>

\* a sort button: sortJobs(type, event)
SortJobs ==
    /\ jobList # "loading"
    /\ \E type \in SortChoices : SortAndRender(type, filteredJobs)
    /\ UNCHANGED <<pageJobs, statsDisplay>>
    /\ UNCHANGED <<wfVars, liVars>>

\* the optional fields a served record may carry: all of them, some of
\* them, none of them, and an annotation whose key_topics is a text
PageProfiles ==
    { [relevance_score |-> 80, job_type |-> "faculty", category |-> "law",
       location |-> "Boston, MA", description |-> "AI policy",
       posting_date |-> "2025-01-02", tags |-> <<"AI">>],
      [relevance_score |-> 40, job_type |-> "industry", category |-> "research",
       location |-> "Remote", posting_date |-> "2025-01-01"],
      [relevance_score |-> 0, job_type |-> "faculty", category |-> "law",
       location |-> "Boston, MA", description |-> "law",
       posting_date |-> "2025-01-01", key_topics |-> TopicsAsText],
      EmptyDict }

PageIdentities == { i \in IdentityCases : i.source_url = "" \/ i.title = "a" }

\* the records source s can have staged
PageJobsOf(s) == { i @@ p @@ [source_site |-> SourceSite(s)] :
                     i \in PageIdentities, p \in PageProfiles }

\* The page is opened after a run of the workflow has ended: the staging
\* files are those of the repository, and the artifact is the integrator's
\* for these files, or is not there.
InitDashboard ==
    /\ pc = "done"
    /\ hung = "none"
    /\ \E a \in SeqsUpTo(PageJobsOf("academic"), MaxServed),
          r \in SeqsUpTo(PageJobsOf("rss"), MaxServed),
          l \in SeqsUpTo(PageJobsOf("linkedin"), MaxServed) :
         /\ Len(a) + Len(r) + Len(l) <= MaxServed
         /\ staging = [s \in SourceSet |->
                         LET staged == CASE s = "academic" -> a
                                         [] s = "rss" -> r
                                         [] s = "linkedin" -> l
                         IN  IF staged = <<>> THEN Missing ELSE StagingFile(staged)]
    /\ all_jobs = <<>>
    /\ unique_jobs = <<>>
    /\ seen = {}
    /\ master_data = EmptyDict
    /\ master \in {Missing, Complete(Integrated(staging).master_data)}
    /\ jobs_json = master
    /\ remote = master
    /\ integrate_exit = "not_run"
    /\ ScraperIdle
    /\ PageNotOpened

NextDashboard ==
    \/ LoadJobs
    \/ ApplyFilters
    \/ SortJobs

SpecDashboard == InitDashboard /\ [][NextDashboard]_vars

-----------------------------------------------------------------------------
(* The identifier on titles, companies and addresses that hold the separator *)

\* records whose title, company or source_url holds the '-' that the
\* identifier puts between title and company
CollidingJobs ==
    { [title |-> t, company |-> c, source_url |-> u] :
        t \in {"a", "a-b"}, c \in {"c", "b-c"}, u \in {"", "a-c"} }

\* The academic staging file holds such records: the integrator is about
\* to run on it, or the page is opened on it with no artifact published.
InitCollide ==
    /\ pc \in {"integrate", "done"}
    /\ hung = "none"
    /\ \E a \in SeqsUpTo(CollidingJobs, MaxColliding) :
         staging = [s \in SourceSet |->
                      IF s = "academic" THEN StagingFile(a) ELSE Missing]
    /\ all_jobs = <<>>
    /\ unique_jobs = <<>>
    /\ seen = {}
    /\ master_data = EmptyDict
    /\ master = IF pc = "done" THEN Missing ELSE Complete(PrevArtifact)
    /\ jobs_json = master
    /\ remote = master
    /\ integrate_exit = "not_run"
    /\ ScraperIdle
    /\ PageNotOpened

NextCollide ==
    \/ IntegrateOpen
    \/ IntegrateDump
    \/ LoadJobs

SpecCollide == InitCollide /\ [][NextCollide]_vars

-----------------------------------------------------------------------------
(* Properties *)

\* integrate_data.py has run up to its save in this run of the job
IntegratorRan == DOMAIN master_data # {}

\* the artifact written by this run is in place
Published == integrate_exit = "zero"

\* The identity of a record as the specification words it: source_url when
\* non-empty, otherwise title + '-' + company.
ClaimIdentity(j) ==
    IF "source_url" \in DOMAIN j /\ j.source_url # ""
    THEN j.source_url
    ELSE (IF "title" \in DOMAIN j THEN j.title ELSE "") \o "-"
         \o (IF "company" \in DOMAIN j THEN j.company ELSE "")

\* the records of a staging file as the integrator is to read them
StagedJobs(s) ==
    IF staging[s].kind = "object" THEN Get(staging[s].data, "jobs", <<>>) ELSE <<>>

\* the concatenation in source processing order: academic, RSS, LinkedIn
Concatenated == StagedJobs("academic") \o StagedJobs("rss") \o StagedJobs("linkedin")

\* C1: the deduplicated sequence the integrator produces from the
\* concatenated staging arrays holds no two records of the same identity.
C1_NoTwoRecordsShareIdentity ==
    IntegratorRan =>
        \A i, j \in 1..Len(unique_jobs) :
            i # j => ClaimIdentity(unique_jobs[i]) # ClaimIdentity(unique_jobs[j])

\* the integrator ran on an input in which an identity occurs twice
C1_Witness ==
    /\ IntegratorRan
    /\ \E i, j \in 1..Len(Concatenated) :
           i < j /\ ClaimIdentity(Concatenated[i]) = ClaimIdentity(Concatenated[j])
    /\ Len(unique_jobs) >= 2

\* C2: of the input records that share an identity, the output holds the
\* one that comes first in the concatenation academic, RSS, LinkedIn (so
\* the record, and its source_site, of the earliest source that has it).
C2_FirstOccurrenceWins ==
    IntegratorRan =>
        \A k \in 1..Len(Concatenated) :
            LET first == CHOOSE m \in 1..k :
                             /\ ClaimIdentity(Concatenated[m]) = ClaimIdentity(Concatenated[k])
                             /\ \A n \in 1..(m - 1) :
                                    ClaimIdentity(Concatenated[n]) # ClaimIdentity(Concatenated[k])
            IN  \A i \in 1..Len(unique_jobs) :
                    ClaimIdentity(unique_jobs[i]) = ClaimIdentity(Concatenated[k])
                        => unique_jobs[i] = Concatenated[first]

\* the integrator ran on an input in which two sources hold the same
\* identity in records that differ
C2_Witness ==
    /\ IntegratorRan
    /\ \E i, j \in 1..Len(Concatenated) :
           /\ i < j
           /\ ClaimIdentity(Concatenated[i]) = ClaimIdentity(Concatenated[j])
           /\ Concatenated[i].source_site # Concatenated[j].source_site
           /\ Concatenated[i].title # Concatenated[j].title

\* C3: two records with the same non-empty source_url have one identity,
\* whatever their other fields: at most one of them is in the output.
C3_SameUrlSurvivesOnce ==
    IntegratorRan =>
        \A i, j \in 1..Len(unique_jobs) :
            ( /\ i # j
              /\ "source_url" \in DOMAIN unique_jobs[i]
              /\ "source_url" \in DOMAIN unique_jobs[j]
              /\ unique_jobs[i].source_url # "" )
            => unique_jobs[i].source_url # unique_jobs[j].source_url

\* the integrator ran on two records of one URL that differ in title and
\* in relevance_score
C3_Witness ==
    /\ IntegratorRan
    /\ \E i, j \in 1..Len(all_jobs) :
           /\ i < j
           /\ Get(all_jobs[i], "source_url", "") # ""
           /\ Get(all_jobs[i], "source_url", "") = Get(all_jobs[j], "source_url", "")
           /\ all_jobs[i].title # all_jobs[j].title
           /\ "relevance_score" \in DOMAIN all_jobs[i]
           /\ "relevance_score" \notin DOMAIN all_jobs[j]

\* the jobs of the artifact in data/all_jobs_integrated.json
PublishedJobs == master.data.jobs

HasScore(j) == "relevance_score" \in DOMAIN j

\* where x stands first in seq (0 when it is not there)
FirstIndex(seq, x) ==
    IF \E k \in 1..Len(seq) : seq[k] = x
    THEN CHOOSE k \in 1..Len(seq) : seq[k] = x /\ \A m \in 1..(k - 1) : seq[m] # x
    ELSE 0

\* C4: the jobs of the published artifact are non-increasing in
\* relevance_score, and two records of equal relevance_score stand in the
\* order they had in the deduplicated input (the order of their first
\* occurrences in the concatenation).
C4_RankedDescendingStable ==
    Published =>
        \A i, j \in 1..Len(PublishedJobs) :
            (i < j /\ HasScore(PublishedJobs[i]) /\ HasScore(PublishedJobs[j])) =>
                /\ PublishedJobs[i].relevance_score >= PublishedJobs[j].relevance_score
                /\ PublishedJobs[i].relevance_score = PublishedJobs[j].relevance_score
                       => FirstIndex(Concatenated, PublishedJobs[i])
                              < FirstIndex(Concatenated, PublishedJobs[j])

\* an artifact is published in which two records of equal score follow a
\* record that stood behind them in the input
C4_Witness ==
    /\ Published
    /\ Len(PublishedJobs) = 3
    /\ \A i \in 1..3 : HasScore(PublishedJobs[i])
    /\ PublishedJobs[1].relevance_score = PublishedJobs[2].relevance_score
    /\ PublishedJobs[2].relevance_score > PublishedJobs[3].relevance_score
    /\ FirstIndex(Concatenated, PublishedJobs[3]) = 1

\* C5: a record without relevance_score is ranked as if its score were 60:
\* behind every record of a score above 60, before every record of a score
\* below 60.
C5_MissingScoreRanksAsDefault ==
    Published =>
        \A i, j \in 1..Len(PublishedJobs) :
            (~HasScore(PublishedJobs[i]) /\ HasScore(PublishedJobs[j])) =>
                /\ PublishedJobs[j].relevance_score > DefaultRelevance => j < i
                /\ PublishedJobs[j].relevance_score < DefaultRelevance => i < j

RECURSIVE SumValues(_)
\* the sum of the values of a dict of counts
SumValues(counts) ==
    IF DOMAIN counts = {} THEN 0
    ELSE LET k == CHOOSE x \in DOMAIN counts : TRUE
         IN  counts[k] + SumValues([x \in DOMAIN counts \ {k} |-> counts[x]])

\* C6: in every published artifact, stats.duplicates_removed is the sum of
\* the per-source raw counts of stats.sources less the number of jobs.
C6_DuplicatesRemovedArithmetic ==
    master.kind = "complete" =>
        LET st == master.data.stats
        IN  st.duplicates_removed =
                (st.sources.academic + st.sources.rss + st.sources.linkedin
                     + st.sources.jsearch) - Len(PublishedJobs)

\* an artifact is published from three sources that each hold a record,
\* with duplicates removed
C6_Witness ==
    /\ Published
    /\ master.data.stats.duplicates_removed > 0
    /\ master.data.stats.sources.academic > 0
    /\ master.data.stats.sources.rss > 0
    /\ master.data.stats.sources.linkedin > 0

\* C7: every counter of stats is a tally over the final jobs: total_jobs is
\* their number, the values of by_job_type and of by_category each sum to
\* it, and high_relevance, gemini_analyzed and remote_jobs count the records
\* with relevance_score >= 80, gemini_analyzed true and is_remote true.
C7_CountersAreTallies ==
    master.kind = "complete" =>
        LET st == master.data.stats
            idx == 1..Len(PublishedJobs)
            High(j) == HasScore(j) /\ j.relevance_score >= 80
            Analyzed(j) == "gemini_analyzed" \in DOMAIN j /\ j.gemini_analyzed = TRUE
            Remote(j) == "is_remote" \in DOMAIN j /\ j.is_remote = TRUE
        IN  /\ st.total_jobs = Len(PublishedJobs)
            /\ SumValues(st.by_job_type) = st.total_jobs
            /\ SumValues(st.by_category) = st.total_jobs
            /\ st.high_relevance = Cardinality({ i \in idx : High(PublishedJobs[i]) })
            /\ st.gemini_analyzed = Cardinality({ i \in idx : Analyzed(PublishedJobs[i]) })
            /\ st.remote_jobs = Cardinality({ i \in idx : Remote(PublishedJobs[i]) })

\* an artifact is published with two records of one job_type and one
\* record without job_type, category, score and flags
C7_Witness ==
    /\ Published
    /\ master.data.stats.total_jobs = 3
    /\ master.data.stats.high_relevance = 2
    /\ master.data.stats.by_job_type["faculty"] = 2
    /\ "unknown" \in DOMAIN master.data.stats.by_job_type
    /\ master.data.stats.remote_jobs = 2

\* C8: at every point of a run, data/all_jobs_integrated.json is the
\* complete artifact of the earlier run or the complete artifact of this
\* run, never a file cut short.
C8_AtomicPublish ==
    \/ master = Complete(PrevArtifact)
    \/ Published /\ master = Complete(master_data)

\* C9: when writing the artifact fails, the run exits non-zero, neither the
\* legacy copy nor the push publishes anything, and the artifact of the
\* earlier run is still in place.
C9_PublishFailureKeepsPrevious ==
    (IntegratorRan /\ integrate_exit = "nonzero") =>
        /\ pc = "failed"
        /\ jobs_json = Complete(PrevArtifact)
        /\ remote = Complete(PrevArtifact)
        /\ master = Complete(PrevArtifact)

\* C10: whatever way the fetch phases fail (non-zero exit, timeout, no
\* output file), a run whose save does not fail ends with the integration
\* run and an artifact published that holds the records of the sources
\* which delivered.
C10_IntegrationRunsWhateverFails ==
    (pc \in {"done", "failed", "cancelled"} /\ integrate_exit # "nonzero") =>
        /\ Published
        /\ master = Complete(master_data)
        /\ \A k \in 1..Len(Concatenated) :
               \E i \in 1..Len(PublishedJobs) :
                   ClaimIdentity(PublishedJobs[i]) = ClaimIdentity(Concatenated[k])

\* the sources the metadata block of a master file names
SourcesListed(data) ==
    { data.metadata.sources_integrated[i] :
          i \in 1..Len(data.metadata.sources_integrated) }

\* C11: once the master file is published, its metadata lists only sources
\* whose staging file was there and parsed: a source whose fetch failed, or
\* whose staging file is missing or corrupt, is not in sources_integrated.
C11_MetadataNamesIntegratedSources ==
    Published =>
        \A s \in SourceSet :
            staging[s].kind \in {"missing", "corrupt"} =>
                s \notin SourcesListed(master.data)

\* a staging file that is absent, not valid JSON, valid JSON that is not an
\* object, or an object whose "jobs" entry is absent or not a list
Malformed(file) ==
    \/ file.kind # "object"
    \/ "jobs" \notin DOMAIN file.data

\* C12: once the integrator has gone over its staging files, it has
\* assembled the artifact; every source whose staging file is missing or
\* malformed counts zero jobs in it, and every record staged by the other
\* sources is in it under its identity.
C12_MalformedSourceCountsAsEmpty ==
    pc \in {"writing", "legacy", "commit", "done", "failed"} =>
        /\ IntegratorRan
        /\ \A s \in SourceSet :
               Malformed(staging[s]) => master_data.stats.sources[s] = 0
        /\ \A i \in 1..Len(Concatenated) :
               \E k \in 1..Len(master_data.jobs) :
                   ClaimIdentity(master_data.jobs[k]) = ClaimIdentity(Concatenated[i])

\* C13: once the workflow job is past its fetch steps, so whenever the
\* integrator reads the staging files, the LinkedIn scraper process has
\* exited or been ended and the analyzer it spawned is neither running nor
\* writing the LinkedIn staging file.
C13_IntegrationAfterFetchPhases ==
    pc \notin {"academic", "rss", "linkedin"} =>
        /\ li_pc \in {"start", "exited", "killed"}
        /\ analyzer \notin {"running", "writing"}

\* the integrator has read the staging files after the timeout ended the
\* scraper and, with it, the analyzer in the middle of its write
C13_Witness ==
    /\ pc = "writing"
    /\ li_pc = "killed"
    /\ analyzer = "killed"
    /\ staging["linkedin"] = Corrupt

\* the analyzer has ended with an exit code other than 0, or with code 0
\* and without an output file
AnnotationUnavailable ==
    \/ analyzer = "exit_nonzero"
    \/ analyzer = "exit_zero" /\ staging["linkedin"].kind = "missing"

\* C14: when the analyzer failed, every record the LinkedIn scraper had
\* collected is in the published master file under its identity, with
\* category research, relevance_score 60 and gemini_analyzed not true.
C14_AnnotatorFailureKeepsRecords ==
    (Published /\ AnnotationUnavailable) =>
        \A i \in 1..Len(allJobs) :
            \E k \in 1..Len(PublishedJobs) :
                /\ ClaimIdentity(PublishedJobs[k]) = ClaimIdentity(allJobs[i])
                /\ Get(PublishedJobs[k], "category", "") = "research"
                /\ Get(PublishedJobs[k], "relevance_score", MissingScore) = DefaultRelevance
                /\ ~Get(PublishedJobs[k], "gemini_analyzed", FALSE)

\* the raw records of the queries that have returned and been mapped, or
\* on which the map has raised
ReturnedCount ==
    LET RECURSIVE Sum(_)
        Sum(i) == IF i = 0 THEN 0
                  ELSE Sum(i - 1) + (IF queried[i].outcome \in {"ok", "map_raised"}
                                     THEN Len(queried[i].found) ELSE 0)
    IN  Sum(Len(queried))

\* C15: the normalizer does not raise, whatever fields a raw record lacks,
\* and the collected jobs hold one Job Record for every raw record of
\* every query result that has been gone through.
C15_OneRecordPerRawRecord ==
    /\ \A k \in 1..Len(queried) : queried[k].outcome # "map_raised"
    /\ Len(allJobs) = ReturnedCount

\* the values of job_type
JobTypes == {"faculty", "industry", "nonprofit", "government", "international"}

\* C16: every Job Record the normalizer has produced carries a
\* relevance_score between 0 and 100, a job_type out of faculty, industry,
\* nonprofit, government and international, a category that is not null,
\* and tags in which no string occurs twice.
C16_NormalizedRecordWellFormed ==
    \A i \in 1..Len(allJobs) :
        LET j == allJobs[i]
        IN  /\ {"relevance_score", "job_type", "category", "tags"} \subseteq DOMAIN j
            /\ j.relevance_score \in 0..100
            /\ j.job_type \in JobTypes
            /\ j.category # "null"
            /\ \A a, b \in 1..Len(j.tags) : a # b => j.tags[a] # j.tags[b]

\* a record whose search keyword is itself the tag its title earns
C16_Witness ==
    /\ Len(allJobs) = 1
    /\ allJobs[1].search_query = "AI"
    /\ allJobs[1].title = "AI Ethics Researcher"
    /\ allJobs[1].tags = <<"AI", "Ethics", "Research">>

\* the Job Records of the queries that went through, in query order
RECURSIVE CollectedUpTo(_)
CollectedUpTo(k) ==
    IF k = 0 THEN <<>>
    ELSE CollectedUpTo(k - 1)
         \o (IF queried[k].outcome = "ok"
             THEN ProcessedJobs(queried[k].found, queried[k].combo) ELSE <<>>)

C18_PauseBetweenQueries ==
    \A k \in 2..Len(queried) : queried[k].paused

\* C19: a query that never returns is cut off and counts as the failure of
\* that query alone: once the LinkedIn step is over, every combination has
\* been queried and the raw file holds the records of the queries that
\* went through.
C19_HungQueryIsOneFailure ==
    (pc # "linkedin" /\ \E k \in 1..Len(queried) : queried[k].outcome = "hung") =>
        /\ Len(queried) = Len(searchCombinations)
        /\ linkedin_raw = [kind |-> "array", data |-> allJobs]

\* the company of a raw record contains, in lower case, one of the words
ClaimHas(job, words) ==
    \E w \in words : includes(toLowerCase(job.company), w)

\* the job_type the decision list of the claim gives a raw record
ClaimJobType(job) ==
    CASE ClaimHas(job, {"university", "college"})   -> "faculty"
      [] ~ClaimHas(job, {"university", "college"})
         /\ ClaimHas(job, {"government", "federal"}) -> "government"
      [] ~ClaimHas(job, {"university", "college", "government", "federal"})
         /\ ClaimHas(job, {"united nations", "oecd"}) -> "international"
      [] ~ClaimHas(job, {"university", "college", "government", "federal",
                         "united nations", "oecd"})
         /\ ClaimHas(job, {"foundation", "nonprofit"}) -> "nonprofit"
      [] OTHER -> "industry"

\* what the decision list of the claim gives the companies tried, worked
\* out by hand
ExpectedJobType ==
    [c \in Companies |->
        CASE c = "University of Law Foundation" -> "faculty"
          [] c = "Boston COLLEGE"               -> "faculty"
          [] c = "Federal Nonprofit"            -> "government"
          [] c = "US Government"                -> "government"
          [] c = "United Nations Foundation"    -> "international"
          [] c = "OECD"                         -> "international"
          [] c = "Ford Foundation"              -> "nonprofit"
          [] OTHER                              -> "industry"]

\* C20: the job_type of a normalized record is decided on the lower-cased
\* company name by the first test that matches: university or college
\* gives faculty, then government or federal gives government, then united
\* nations or oecd gives international, then foundation or nonprofit gives
\* nonprofit, and anything else is industry; so "University of Law
\* Foundation" is faculty.
C20_JobTypeFirstMatchWins ==
    \A i \in 1..Len(allJobs) :
        /\ allJobs[i].job_type = ClaimJobType(queried[1].found[i])
        /\ allJobs[i].job_type = ExpectedJobType[queried[1].found[i].company]
        /\ allJobs[i].company = "University of Law Foundation"
               => allJobs[i].job_type = "faculty"

\* the record of "University of Law Foundation" has been normalized
C20_Witness ==
    /\ Len(allJobs) = 1
    /\ queried[1].found[1].company = "University of Law Foundation"
    /\ allJobs[1].job_type = "faculty"

\* C21: every normalized record carries is_remote as a boolean, true when
\* the search was for the Remote location or the raw location contains
\* "remote" in any case, and false otherwise, also for a raw record that
\* has no location.
C21_IsRemoteIsBoolean ==
    \A i \in 1..Len(allJobs) :
        LET raw == queried[1].found[i]
            c   == queried[1].combo
        IN  /\ "is_remote" \in DOMAIN allJobs[i]
            /\ allJobs[i].is_remote =
                   (\/ c.location = "Remote"
                    \/ /\ "location" \in DOMAIN raw
                       /\ includes(toLowerCase(raw.location), "remote"))

\* C22: the deduplicated list the integrator has made of the combined jobs
\* comes out of a second deduplication as it went in, the same records in
\* the same order; and so does the list removeDuplicateJobs of the
\* dashboard makes of them.
C22_DedupIdempotent ==
    pc # "integrate" =>
        /\ Dedup(Dedup(all_jobs).unique_jobs).unique_jobs = Dedup(all_jobs).unique_jobs
        /\ removeDuplicateJobs(removeDuplicateJobs(all_jobs)) = removeDuplicateJobs(all_jobs)

\* the combined jobs held one identity three times
C22_Witness ==
    /\ pc # "integrate"
    /\ Len(all_jobs) = 3
    /\ \A i \in 1..3 : ClaimIdentity(all_jobs[i]) = "u"
    /\ Len(Dedup(all_jobs).unique_jobs) = 1

\* every staging file is missing or holds an empty jobs list
AllSourcesEmpty ==
    \A s \in SourceSet : staging[s] = Missing \/ staging[s] = StagingFile(<<>>)

\* C23: when every staging file is missing or empty, the integrator does
\* not fail on it: it assembles an artifact with no jobs, total_jobs 0 and
\* duplicates_removed 0, and that artifact is what the master file holds
\* once the script has exited with 0.
C23_EmptySourcesPublishEmptyArtifact ==
    (AllSourcesEmpty /\ pc \in {"writing", "legacy", "commit", "done", "failed"}) =>
        /\ IntegratorRan
        /\ master_data.jobs = <<>>
        /\ master_data.stats.total_jobs = 0
        /\ master_data.stats.duplicates_removed = 0
        /\ master_data.metadata.total_unique_jobs = 0
        /\ Published => master = Complete(master_data)

\* an artifact without jobs is published from one empty and two missing
\* staging files
C23_Witness ==
    /\ Published
    /\ staging["academic"] = StagingFile(<<>>)
    /\ staging["rss"] = Missing
    /\ staging["linkedin"] = Missing
    /\ master.kind = "complete"
    /\ master.data.jobs = <<>>

\* neither the artifact nor any other data file supplies a record
NoJobsServed == ~MasterServesJobs /\ FallbackJobs = <<>>

\* C24: when the published artifact is missing or has an empty jobs list
\* and no other data file supplies jobs, loading the page ends in the "no
\* data yet" state, the message 'No job data available yet' with a total
\* of zero, and not in 'No jobs match your search criteria'
C24_EmptyArtifactShowsNoDataYet ==
    [][(jobList = "loading" /\ jobList' # "loading" /\ NoJobsServed)
         => (jobList' = "no_data" /\ statsDisplay' = 0)]_vars

\* C25: the page never crashes on a record that lacks optional fields:
\* whatever records are loaded, each with or without location,
\* description, posting_date, tags and relevance_score and none with a
\* field of the wrong type, no filter input and no sort choice makes a
\* handler of the page end in an uncaught error
C25_NoCrashOnMissingOptionalFields ==
    (\A i \in 1..Len(pageJobs) : ~RenderRaises(pageJobs[i])) => ~uncaught

\* two records match as the claim words it: the same non-empty
\* source_url, or no source_url on either and equal title and company
GenuineMatch(a, b) ==
    \/ a.source_url # "" /\ a.source_url = b.source_url
    \/ a.source_url = "" /\ b.source_url = "" /\ a.title = b.title
         /\ a.company = b.company

\* the records of input that no earlier record of input matches
Unmatched(input) ==
    { i \in 1..Len(input) : \A j \in 1..(i - 1) : ~GenuineMatch(input[j], input[i]) }

\* C26: deduplication drops a record only for a genuine match: the
\* integrator publishes, and the page's fallback keeps, as many records as
\* the input has records without an earlier record of the same non-empty
\* source_url or, both without source_url, of the same title and company
C26_DroppedOnlyForGenuineMatch ==
    /\ Published => Len(PublishedJobs) = Cardinality(Unmatched(Concatenated))
    /\ jobList # "loading" => Len(pageJobs) = Cardinality(Unmatched(FallbackJobs))

\* the first occurrence per identity of input, in the order of input
RECURSIVE FirstOccurrences(_, _)
FirstOccurrences(met, input) ==
    IF input = <<>> THEN <<>>
    ELSE IF ClaimIdentity(Head(input)) \in met
         THEN FirstOccurrences(met, Tail(input))
         ELSE <<Head(input)>>
              \o FirstOccurrences(met \cup {ClaimIdentity(Head(input))}, Tail(input))

Occurrences(list, x) == Cardinality({ i \in 1..Len(list) : list[i] = x })

\* C27: the published jobs sequence is a permutation of exactly the first
\* occurrences per identity of the concatenated input: every such record
\* is published once and unaltered, and nothing else is published
C27_PublishedIsPermutationOfFirstOccurrences ==
    Published =>
        LET first == FirstOccurrences({}, Concatenated)
        IN  /\ Len(PublishedJobs) = Len(first)
            /\ \A i \in 1..Len(first) :
                 Occurrences(PublishedJobs, first[i]) = Occurrences(first, first[i])

\* a duplicate was dropped and the ranking moved a record
C27_Witness ==
    /\ Published
    /\ Len(PublishedJobs) >= 2
    /\ Len(Concatenated) > Len(PublishedJobs)
    /\ PublishedJobs # FirstOccurrences({}, Concatenated)

\* which source's record stands for each posting in list
KeptFrom(list) ==
    { <<ClaimIdentity(list[i]), list[i].source_site>> : i \in 1..Len(list) }

\* C28: when the page has loaded through its fallback, the integrated
\* file being unavailable, each posting that appears in two sources is
\* shown by the record of the source the integrator keeps for the same
\* staging files: academic before RSS before LinkedIn
C28_FallbackKeepsTheIntegratorsSource ==
    (pageJobs # <<>> /\ ~MasterServesJobs)
        => KeptFrom(pageJobs) = KeptFrom(Integrated(staging).unique_jobs)

\* C29: the 'relevance' sort of the page agrees with the integrator's
\* ranking: sortJobs('relevance') on the unfiltered jobs of a published
\* artifact leaves their order unchanged, also when records have a
\* relevance_score of 0 or none
C29_RelevanceSortKeepsPublishedOrder ==
    [][(MasterServesJobs /\ filteredJobs = pageJobs /\ SortJobs
          /\ currentSort' = "relevance") => filteredJobs' = pageJobs]_vars

\* the close handler of the analyzer process has run
Closed == li_pc = "exited"

\* C30: the scraper reports success only for a complete annotated result:
\* the analyzer is not started before data/linkedin_raw.json holds the
\* collected records, and once the close handler has run the promise is
\* resolved if the analyzer exited with code 0 and
\* data/linkedin_gemini_jobs.json exists, and rejected in every other case
C30_ResolvesOnlyOnCompleteAnnotation ==
    /\ analyzer # "not_started" => linkedin_raw = [kind |-> "array", data |-> allJobs]
    /\ promise = "resolved" => Closed
    /\ Closed =>
         promise = IF analyzer = "exit_zero" /\ staging["linkedin"].kind # "missing"
                   THEN "resolved" ELSE "rejected"

\* the promise was rejected although the analyzer had started to write
\* its output
C30_Witness ==
    /\ Closed
    /\ promise = "rejected"
    /\ analyzer = "exit_nonzero"
    /\ staging["linkedin"].kind # "missing"
    /\ allJobs # <<>>

====
